---- MODULE Spec2Model ----
(***************************************************************************)
(* Model of the cutlass-sys build script (build.rs): the version mapper,   *)
(* the override / cache / download-with-retry / clone-fallback pipeline,   *)
(* the copy into the persistent cache and the publication of the paths.    *)
(***************************************************************************)
EXTENDS Integers, Sequences, FiniteSets, TLC

(***************************************************************************)
(* Bounds of the model.                                                    *)
(***************************************************************************)
\* longest pre-release / build-metadata suffix of a generated version string
MaxSuffixLen == 3
\* longest unstructured (possibly malformed) version string
MaxRawLen == 4

(***************************************************************************)
(* Strings are sequences of one-character strings.                         *)
(***************************************************************************)
Range(s) == {s[i] : i \in 1..Len(s)}

\* all sequences over alphabet A of length exactly n / at most n
RECURSIVE StringsOfLen(_, _)
StringsOfLen(A, n) ==
    IF n = 0 THEN {<<>>}
    ELSE {Append(s, c) : s \in StringsOfLen(A, n - 1), c \in A}

StringsUpTo(A, n) == UNION {StringsOfLen(A, k) : k \in 0..n}

\* str::split(c): the segments of s between the occurrences of c
\* (a string without c is one segment; the empty string is one empty segment)
RECURSIVE Split(_, _)
Split(s, c) ==
    IF \A i \in 1..Len(s) : s[i] # c THEN <<s>>
    ELSE LET k == CHOOSE i \in 1..Len(s) :
                      s[i] = c /\ \A j \in 1..(i - 1) : s[j] # c
         IN  <<SubSeq(s, 1, k - 1)>> \o Split(SubSeq(s, k + 1, Len(s)), c)

\* a take that keeps every segment
Take_all(parts, n) == parts

\* Iterator::take(n)
Take(parts, n) == SubSeq(parts, 1, IF Len(parts) < n THEN Len(parts) ELSE n)

\* [&str]::join(sep)
RECURSIVE Join(_, _)
Join(parts, sep) ==
    IF Len(parts) = 0 THEN <<>>
    ELSE IF Len(parts) = 1 THEN parts[1]
    ELSE parts[1] \o sep \o Join(Tail(parts), sep)

\* get_cutlass_version without the split on '+'
get_cutlass_version_keeps_build(pkg_version) ==
    LET base_version == Split(pkg_version, "-")[1]
        parts        == Take(Split(base_version, "."), 3)
    IN  Join(parts, <<".">>)

\* build.rs get_cutlass_version: split('-').next(), split('+').next(),
\* split('.').take(3), join(".")
get_cutlass_version(pkg_version) ==
    LET base_version == Split(Split(pkg_version, "-")[1], "+")[1]
        parts        == Take(Split(base_version, "."), 3)
    IN  Join(parts, <<".">>)


(***************************************************************************)
(* Inputs of the version mapper.                                           *)
(***************************************************************************)
None == <<>>
Some(v) == <<v>>

\* numeric identifiers used for MAJOR, MINOR and PATCH
NumStrs == {<<"4">>, <<"2">>, <<"1", "0">>}

\* a pre-release or build-metadata suffix: dot-separated non-empty
\* identifiers over alphanumerics and '-'
IsSuffix(s) ==
    /\ Len(s) > 0
    /\ s[1] # "." /\ s[Len(s)] # "."
    /\ \A i \in 1..(Len(s) - 1) : ~(s[i] = "." /\ s[i + 1] = ".")

Suffixes == {s \in StringsUpTo({"a", "-", "."}, MaxSuffixLen) : IsSuffix(s)}

\* the components of a well-formed version; an empty pre / build is absent
SemVers == [major : NumStrs, minor : NumStrs, patch : NumStrs,
            pre : Suffixes \cup {<<>>}, build : Suffixes \cup {<<>>}]

\* MAJOR.MINOR.PATCH
Core(sem) == sem.major \o <<".">> \o sem.minor \o <<".">> \o sem.patch

\* MAJOR.MINOR.PATCH[-PRERELEASE][+BUILD]
Compose(sem) ==
    Core(sem)
      \o (IF sem.pre = <<>> THEN <<>> ELSE <<"-">> \o sem.pre)
      \o (IF sem.build = <<>> THEN <<>> ELSE <<"+">> \o sem.build)

\* unstructured version strings
RawVersions == StringsUpTo({"4", ".", "-", "+"}, MaxRawLen)

\* versions with four and with two components
ExampleVersions == {<<"4", ".", "2", ".", "0", ".", "1">>, <<"4", ".", "2">>}


(***************************************************************************)
(* 64-bit unsigned arithmetic.  A u64 is eight 8-bit limbs, least          *)
(* significant first, so that 2^63 and the overflow at 2^64 are exact.     *)
(***************************************************************************)
LimbBits == 8
LimbCount == 8
LimbBase == 2 ^ LimbBits

\* the u64 of a number below LimbBase
U64Small(n) == [i \in 1..LimbCount |-> IF i = 1 THEN n ELSE 0]

\* the limb product x[i] * y[k + 1 - i], a term of column k of the
\* schoolbook product
Term(x, y, k, i) ==
    IF k + 1 - i \in 1..LimbCount THEN x[i] * y[k + 1 - i] ELSE 0

\* column k of the schoolbook product of two u64
ColumnSum(x, y, k) ==
    Term(x, y, k, 1) + Term(x, y, k, 2) + Term(x, y, k, 3) + Term(x, y, k, 4)
      + Term(x, y, k, 5) + Term(x, y, k, 6) + Term(x, y, k, 7)
      + Term(x, y, k, 8)

\* the 2 * LimbCount limbs of the full product, from column k on.  (Each
\* intermediate value is bound by a quantifier over a one-element set, which
\* computes it once.)
RECURSIVE ProductLimbs(_, _, _, _)
ProductLimbs(x, y, k, carry) ==
    IF k > 2 * LimbCount THEN <<>>
    ELSE CHOOSE limbs \in
             {<<t % LimbBase>> \o ProductLimbs(x, y, k + 1, t \div LimbBase) :
                 t \in {ColumnSum(x, y, k) + carry}} : TRUE

\* u64 multiplication: the wrapped value and whether the true product did
\* not fit 64 bits
U64Mul(x, y) ==
    CHOOSE product \in
        {[val |-> SubSeq(r, 1, LimbCount),
          overflow |-> \E i \in (LimbCount + 1)..(2 * LimbCount) : r[i] # 0] :
            r \in {ProductLimbs(a, b, 1, 0) : a \in {x}, b \in {y}}} : TRUE

\* the loop of u64::pow: square-and-multiply, least significant bit first
RECURSIVE PowLoop(_, _, _, _)
PowLoop(base, acc, exp, overflow) ==
    CHOOSE power \in
        {IF exp % 2 = 1 /\ exp = 1
         THEN [val |-> m.val, overflow |-> overflow \/ m.overflow]
         ELSE CHOOSE rest \in
                  {PowLoop(sq.val, m.val, exp \div 2,
                           overflow \/ m.overflow \/ sq.overflow) :
                      sq \in {U64Mul(base, base)}} : TRUE :
            m \in {IF exp % 2 = 1 THEN U64Mul(acc, base)
                   ELSE [val |-> acc, overflow |-> FALSE]}} : TRUE

\* u64::pow(base, exp) for a base below LimbBase
U64Pow(base, exp) ==
    IF exp = 0 THEN [val |-> U64Small(1), overflow |-> FALSE]
    ELSE PowLoop(U64Small(base), U64Small(1), exp, FALSE)

\* the natural number 2^e, as limbs without leading zero limbs
Pow2Nat(e) ==
    [i \in 1..((e \div LimbBits) + 1) |->
        IF i = (e \div LimbBits) + 1 THEN 2 ^ (e % LimbBits) ELSE 0]

\* the natural number a u64 holds, as limbs without leading zero limbs
RECURSIVE NatOf(_)
NatOf(x) ==
    IF Len(x) = 0 THEN <<>>
    ELSE IF x[Len(x)] = 0 THEN NatOf(SubSeq(x, 1, Len(x) - 1))
    ELSE x

(***************************************************************************)
(* Decimal strings: the value of CUTLASS_DOWNLOAD_RETRIES.                 *)
(***************************************************************************)
Digits == <<"0", "1", "2", "3", "4", "5", "6", "7", "8", "9">>

DigitValue(c) == (CHOOSE i \in 1..10 : Digits[i] = c) - 1

\* the decimal string of n
RECURSIVE ToDigits(_)
ToDigits(n) ==
    IF n < 10 THEN <<Digits[n + 1]>>
    ELSE ToDigits(n \div 10) \o <<Digits[(n % 10) + 1]>>

\* str::parse::<usize>().ok(): Some(value) for a non-empty digit string,
\* None otherwise
RECURSIVE DigitsValue(_)
DigitsValue(s) ==
    IF Len(s) = 0 THEN 0
    ELSE DigitsValue(SubSeq(s, 1, Len(s) - 1)) * 10 + DigitValue(s[Len(s)])

ParseUsize(s) ==
    LET t == IF Len(s) > 0 /\ s[1] = "+" THEN Tail(s) ELSE s
    IN  IF Len(t) > 0 /\ \A i \in 1..Len(t) : t[i] \in Range(Digits)
        THEN Some(DigitsValue(t))
        ELSE None


(***************************************************************************)
(* The environment of a build: processes, package versions, directories.   *)
(***************************************************************************)
\* largest value of CUTLASS_DOWNLOAD_RETRIES a whole build is run with
MaxRetriesEnv == 1
\* largest value of CUTLASS_DOWNLOAD_RETRIES the retry loop is run with
MaxAttempts == 66

Procs == {1, 2}

\* CARGO_PKG_VERSION of the crate being built
PkgVersions == {<<"4", ".", "2", ".", "0">>,
                <<"3", ".", "5", ".", "1", "-", "r", "c">>}

\* values of the documented CUTLASS_VERSION variable
VersionEnvChoices == {None, Some(<<"v", "3", ".", "5", ".", "1">>)}

\* values of CUTLASS_DOWNLOAD_RETRIES for a whole build
RetriesEnvChoices ==
    {None} \cup {Some(ToDigits(n)) : n \in 0..MaxRetriesEnv}

\* directories a user may point CUTLASS_DIR at, and what they hold
\* (paths relative to the directory; <<>> is the directory itself)
GoodDir == <<"o", "p", "t">>
BadDir == <<"t", "m", "p">>
UserDirs == {GoodDir, BadDir}

\* the library's source tree as a fetch delivers it
SourceDirs == {<<"include">>}
SourceFiles == {<<"include", "cutlass.h">>, <<"include", "gemm.h">>,
                <<"LICENSE">>}
SourceTree == SourceDirs \cup SourceFiles

UserFs(name) ==
    IF name = GoodDir THEN {<<>>} \cup SourceTree ELSE {<<>>}

\* a listing that yields the subdirectories only
Children_dirs_only(d) ==
    {e \in SourceDirs : Len(e) = Len(d) + 1 /\ SubSeq(e, 1, Len(d)) = d}

\* the entries of the source tree directly inside directory d
Children(d) ==
    {e \in SourceTree : Len(e) = Len(d) + 1 /\ SubSeq(e, 1, Len(d)) = d}

\* scratch directories under OUT_DIR
TempDir == "cutlass_download_temp"
ExtractDir == "cutlass_download_temp/extract"
CloneDir == "cutlass_download_temp/cutlass-git"

\* format!("v{}", get_cutlass_version(pkg_version))
CutlassVersionOf(pkg_version) == <<"v">> \o get_cutlass_version(pkg_version)

CacheSlots == {CutlassVersionOf(v) : v \in PkgVersions}

(***************************************************************************)
(* Paths: a base (the CUTLASS_DIR value or the cache slot of a version)    *)
(* and the components joined to it.                                        *)
(***************************************************************************)
UserPath(dir) == [base |-> "CUTLASS_DIR", name |-> dir, rel |-> <<>>]

\* get_cache_dir().join("cutlass").join(version)
CachePath(version) == [base |-> "cache", name |-> version, rel |-> <<>>]

\* a join that drops the component
PathJoin_dropped(path, comp) == path

\* PathBuf::join
PathJoin(path, comp) == [path EXCEPT !.rel = Append(@, comp)]

VARIABLES
    builds,           \* the build processes of the scenario
    env,              \* per process: the environment of its current run
    pc,               \* per process: position in main
    cutlass_version,  \* per process: the version main resolved
    max_retries,      \* per process: download_cutlass_with_retry's limit
    attempt,          \* per process: loop variable of the retry loop
    last_error,       \* per process: Option<String> of the retry loop
    slept,            \* per process: the backoff slept before the attempt
    overflow_checks,  \* per process: build profile, once it matters
    temp,             \* per process: scratch directories that exist
    cache,            \* per version: entries present in the cache slot
    extracted_root,   \* per process: directory the fetch returned
    copy_stack,       \* per process: frames of copy_dir_all
    published,        \* per process: key/value pairs emitted to cargo
    result_err,       \* per process: Err of download_cutlass_with_retry
    clone_err,        \* per process: error of try_git_clone
    panic_msg,        \* per process: message of the panic that ended it
    http_attempts,    \* per process: calls of try_http_download in the run
    clone_attempts,   \* per process: calls of try_git_clone in the run
    route,            \* per process: stage that produced the result
    cache_lookups,    \* per process: cache existence checks in the run
    cache_writes,     \* per process: writes into the cache in the run
    remove_result,    \* per process: the discarded Result of the cleanup
    vsem, vin, vout   \* version mapper: components, input, result

vars == <<builds, env, pc, cutlass_version, max_retries, attempt, last_error,
          slept, overflow_checks, temp, cache, extracted_root, copy_stack,
          published, result_err, clone_err, panic_msg, http_attempts,
          clone_attempts, route, cache_lookups, cache_writes, remove_result,
          vsem, vin, vout>>

\* the variables of the build pipeline / of the version mapper
runVars == <<builds, env, pc, cutlass_version, max_retries, attempt,
             last_error, slept, overflow_checks, temp, cache, extracted_root,
             copy_stack, published, result_err, clone_err, panic_msg,
             http_attempts, clone_attempts, route, cache_lookups,
             cache_writes, remove_result>>
versionVars == <<vsem, vin, vout>>

\* an existence check that also requires the whole source tree under the base
Exists_and_complete(path) ==
    IF path.base = "CUTLASS_DIR" THEN path.rel \in UserFs(path.name)
    ELSE path.rel \in cache[path.name] /\ SourceTree \subseteq cache[path.name]

\* an existence check made on the base directory instead of the path
Exists_of_base(path) ==
    IF path.base = "CUTLASS_DIR" THEN <<>> \in UserFs(path.name)
    ELSE <<>> \in cache[path.name]

\* whether a path exists on the filesystem
Exists(path) ==
    IF path.base = "CUTLASS_DIR" THEN path.rel \in UserFs(path.name)
    ELSE path.rel \in cache[path.name]

NoEnv == [CUTLASS_DIR |-> None, CARGO_PKG_VERSION |-> <<>>,
          CUTLASS_VERSION |-> None, CUTLASS_DOWNLOAD_RETRIES |-> None]

Envs == [CUTLASS_DIR : {None} \cup {Some(d) : d \in UserDirs},
         CARGO_PKG_VERSION : PkgVersions,
         CUTLASS_VERSION : VersionEnvChoices,
         CUTLASS_DOWNLOAD_RETRIES : RetriesEnvChoices]

\* the per-process state before a run
IdleRun ==
    /\ env = [p \in Procs |-> NoEnv]
    /\ pc = [p \in Procs |-> "idle"]
    /\ cutlass_version = [p \in Procs |-> <<>>]
    /\ max_retries = [p \in Procs |-> 0]
    /\ attempt = [p \in Procs |-> 0]
    /\ last_error = [p \in Procs |-> None]
    /\ slept = [p \in Procs |-> None]
    /\ overflow_checks = [p \in Procs |-> None]
    /\ temp = [p \in Procs |-> {}]
    /\ cache = [v \in CacheSlots |-> {}]
    /\ extracted_root = [p \in Procs |-> ""]
    /\ copy_stack = [p \in Procs |-> <<>>]
    /\ published = [p \in Procs |-> {}]
    /\ result_err = [p \in Procs |-> None]
    /\ clone_err = [p \in Procs |-> None]
    /\ panic_msg = [p \in Procs |-> None]
    /\ http_attempts = [p \in Procs |-> 0]
    /\ clone_attempts = [p \in Procs |-> 0]
    /\ route = [p \in Procs |-> "none"]
    /\ cache_lookups = [p \in Procs |-> 0]
    /\ cache_writes = [p \in Procs |-> 0]
    /\ remove_result = [p \in Procs |-> "none"]

NoVersionRun == vsem = None /\ vin = <<>> /\ vout = None

\* one build at a time, each started after the previous one ended
Init == builds = {1} /\ IdleRun /\ NoVersionRun


(***************************************************************************)
(* main, up to the download.                                               *)
(***************************************************************************)
Terminal == {"published", "fatal"}

\* emit_cargo_keys with the two arguments exchanged
emit_cargo_keys_swapped(root, include_dir) ==
    {[key |-> "root", value |-> include_dir],
     [key |-> "include", value |-> root],
     [key |-> "include_dir", value |-> root],
     [key |-> "INCLUDE_DIR", value |-> root],
     [key |-> "rustc-env=CUTLASS_INCLUDE_DIR", value |-> root],
     [key |-> "rustc-env=CUTLASS_ROOT", value |-> include_dir]}

\* emit_cargo_keys without the cargo:root line
emit_cargo_keys_no_root(root, include_dir) ==
    {[key |-> "include", value |-> include_dir],
     [key |-> "include_dir", value |-> include_dir],
     [key |-> "INCLUDE_DIR", value |-> include_dir],
     [key |-> "rustc-env=CUTLASS_INCLUDE_DIR", value |-> include_dir],
     [key |-> "rustc-env=CUTLASS_ROOT", value |-> root]}

\* emit_cargo_keys: the key/value pairs printed for cargo
emit_cargo_keys(root, include_dir) ==
    {[key |-> "root", value |-> root],
     [key |-> "include", value |-> include_dir],
     [key |-> "include_dir", value |-> include_dir],
     [key |-> "INCLUDE_DIR", value |-> include_dir],
     [key |-> "rustc-env=CUTLASS_INCLUDE_DIR", value |-> include_dir],
     [key |-> "rustc-env=CUTLASS_ROOT", value |-> root]}

\* a build script is invoked: main resolves the version (lines 8-22)
Start(p) ==
    /\ pc[p] \in {"idle"} \cup Terminal
    /\ \E e \in Envs :
         /\ env' = [env EXCEPT ![p] = e]
         /\ cutlass_version' =
              [cutlass_version EXCEPT ![p] = CutlassVersionOf(e.CARGO_PKG_VERSION)]
    /\ pc' = [pc EXCEPT ![p] = "override_check"]
    /\ max_retries' = [max_retries EXCEPT ![p] = 0]
    /\ attempt' = [attempt EXCEPT ![p] = 0]
    /\ last_error' = [last_error EXCEPT ![p] = None]
    /\ slept' = [slept EXCEPT ![p] = None]
    /\ overflow_checks' = [overflow_checks EXCEPT ![p] = None]
    /\ extracted_root' = [extracted_root EXCEPT ![p] = ""]
    /\ copy_stack' = [copy_stack EXCEPT ![p] = <<>>]
    /\ published' = [published EXCEPT ![p] = {}]
    /\ result_err' = [result_err EXCEPT ![p] = None]
    /\ clone_err' = [clone_err EXCEPT ![p] = None]
    /\ panic_msg' = [panic_msg EXCEPT ![p] = None]
    /\ http_attempts' = [http_attempts EXCEPT ![p] = 0]
    /\ clone_attempts' = [clone_attempts EXCEPT ![p] = 0]
    /\ route' = [route EXCEPT ![p] = "none"]
    /\ cache_lookups' = [cache_lookups EXCEPT ![p] = 0]
    /\ cache_writes' = [cache_writes EXCEPT ![p] = 0]
    /\ remove_result' = [remove_result EXCEPT ![p] = "none"]
    /\ UNCHANGED <<builds, temp, cache, versionVars>>

\* an override check that falls back to the cache when include/ is missing
OverrideCheck_fallback(p) ==
    /\ pc[p] = "override_check"
    /\ IF env[p].CUTLASS_DIR # None
          /\ Exists(PathJoin(UserPath(env[p].CUTLASS_DIR[1]), "include"))
       THEN LET cutlass_root == UserPath(env[p].CUTLASS_DIR[1])
                include_dir  == PathJoin(cutlass_root, "include")
            IN  /\ published' = [published EXCEPT ![p] =
                                   emit_cargo_keys(cutlass_root, include_dir)]
                /\ route' = [route EXCEPT ![p] = "override"]
                /\ pc' = [pc EXCEPT ![p] = "published"]
       ELSE /\ pc' = [pc EXCEPT ![p] = "cache_check"]
            /\ UNCHANGED <<published, route>>
    /\ UNCHANGED <<builds, env, cutlass_version, max_retries, attempt,
                   last_error, slept, overflow_checks, temp, cache,
                   extracted_root, copy_stack, result_err, clone_err,
                   panic_msg, http_attempts, clone_attempts, cache_lookups,
                   cache_writes, remove_result, versionVars>>

\* 1. user-provided CUTLASS_DIR (lines 25-44)
OverrideCheck(p) ==
    /\ pc[p] = "override_check"
    /\ IF env[p].CUTLASS_DIR # None
       THEN LET custom_dir   == env[p].CUTLASS_DIR[1]
                cutlass_root == UserPath(custom_dir)
                include_dir  == PathJoin(cutlass_root, "include")
            IN  IF ~Exists(include_dir)
                THEN /\ pc' = [pc EXCEPT ![p] = "fatal"]
                     /\ panic_msg' = [panic_msg EXCEPT ![p] =
                                        Some("CUTLASS_DIR is set but include does not exist")]
                     /\ UNCHANGED <<published, route>>
                ELSE /\ published' = [published EXCEPT ![p] =
                                        emit_cargo_keys(cutlass_root, include_dir)]
                     /\ route' = [route EXCEPT ![p] = "override"]
                     /\ pc' = [pc EXCEPT ![p] = "published"]
                     /\ UNCHANGED panic_msg
       ELSE /\ pc' = [pc EXCEPT ![p] = "cache_check"]
            /\ UNCHANGED <<published, route, panic_msg>>
    /\ UNCHANGED <<builds, env, cutlass_version, max_retries, attempt,
                   last_error, slept, overflow_checks, temp, cache,
                   extracted_root, copy_stack, result_err, clone_err,
                   http_attempts, clone_attempts, cache_lookups,
                   cache_writes, remove_result, versionVars>>

\* a cache check that looks for a header inside include/
CacheCheck_checks_header(p) ==
    /\ pc[p] = "cache_check"
    /\ cache_lookups' = [cache_lookups EXCEPT ![p] = @ + 1]
    /\ LET cache_dir      == CachePath(cutlass_version[p])
           cached_include == PathJoin(cache_dir, "include")
       IN  IF Exists(PathJoin(cached_include, "cutlass.h"))
           THEN /\ published' = [published EXCEPT ![p] =
                                   emit_cargo_keys(cache_dir, cached_include)]
                /\ route' = [route EXCEPT ![p] = "cache"]
                /\ pc' = [pc EXCEPT ![p] = "published"]
           ELSE /\ pc' = [pc EXCEPT ![p] = "mktemp"]
                /\ UNCHANGED <<published, route>>
    /\ UNCHANGED <<builds, env, cutlass_version, max_retries, attempt,
                   last_error, slept, overflow_checks, temp, cache,
                   extracted_root, copy_stack, result_err, clone_err,
                   panic_msg, http_attempts, clone_attempts, cache_writes,
                   remove_result, versionVars>>

\* 2. persistent cache directory (lines 47-58)
CacheCheck(p) ==
    /\ pc[p] = "cache_check"
    /\ cache_lookups' = [cache_lookups EXCEPT ![p] = @ + 1]
    /\ LET cache_dir      == CachePath(cutlass_version[p])
           cached_include == PathJoin(cache_dir, "include")
       IN  IF Exists(cached_include)
           THEN /\ published' = [published EXCEPT ![p] =
                                   emit_cargo_keys(cache_dir, cached_include)]
                /\ route' = [route EXCEPT ![p] = "cache"]
                /\ pc' = [pc EXCEPT ![p] = "published"]
           ELSE /\ pc' = [pc EXCEPT ![p] = "mktemp"]
                /\ UNCHANGED <<published, route>>
    /\ UNCHANGED <<builds, env, cutlass_version, max_retries, attempt,
                   last_error, slept, overflow_checks, temp, cache,
                   extracted_root, copy_stack, result_err, clone_err,
                   panic_msg, http_attempts, clone_attempts, cache_writes,
                   remove_result, versionVars>>

\* 3. the scratch directory (lines 66-68); creating it may fail
MkTemp(p) ==
    /\ pc[p] = "mktemp"
    /\ \E ok \in BOOLEAN :
         IF ok
         THEN /\ temp' = [temp EXCEPT ![p] = @ \cup {TempDir}]
              /\ pc' = [pc EXCEPT ![p] = "download"]
              /\ UNCHANGED panic_msg
         ELSE /\ pc' = [pc EXCEPT ![p] = "fatal"]
              /\ panic_msg' = [panic_msg EXCEPT ![p] =
                                 Some("Failed to create temp directory")]
              /\ UNCHANGED temp
    /\ UNCHANGED <<builds, env, cutlass_version, max_retries, attempt,
                   last_error, slept, overflow_checks, cache, extracted_root,
                   copy_stack, published, result_err, clone_err,
                   http_attempts, clone_attempts, route, cache_lookups,
                   cache_writes, remove_result, versionVars>>


(***************************************************************************)
(* download_cutlass_with_retry.                                            *)
(***************************************************************************)
DefaultRetries == 3

\* Option::unwrap_or
UnwrapOr(opt, default) == IF opt = None THEN default ELSE opt[1]

\* a limit that is raised to at least one attempt
RetriesOf_at_least_one(e) ==
    IF e.CUTLASS_DOWNLOAD_RETRIES = None THEN DefaultRetries
    ELSE IF UnwrapOr(ParseUsize(e.CUTLASS_DOWNLOAD_RETRIES[1]), DefaultRetries) = 0
    THEN 1
    ELSE UnwrapOr(ParseUsize(e.CUTLASS_DOWNLOAD_RETRIES[1]), DefaultRetries)

\* env::var(..).ok().and_then(|s| s.parse::<usize>().ok()).unwrap_or(3)
RetriesOf(e) ==
    IF e.CUTLASS_DOWNLOAD_RETRIES = None THEN DefaultRetries
    ELSE UnwrapOr(ParseUsize(e.CUTLASS_DOWNLOAD_RETRIES[1]), DefaultRetries)

\* the ways try_http_download fails, and the text of each error
HttpFailures == {"send", "status", "unpack", "nodir"}
HttpOutcomes == {"ok"} \cup HttpFailures

HttpErrorText(outcome) ==
    CASE outcome = "send"   -> "error sending request"
      [] outcome = "status" -> "HTTP 404 Not Found"
      [] outcome = "unpack" -> "failed to unpack archive"
      [] outcome = "nodir"  -> "Could not find extracted CUTLASS directory"

\* outcomes after which try_http_download has created the extract directory
CreatesExtract == {"ok", "unpack", "nodir"}

\* the ways try_git_clone fails, and the text of each error
CloneFailures == {"spawn", "exit"}
CloneOutcomes == {"ok"} \cup CloneFailures

CloneErrorText(outcome) ==
    CASE outcome = "spawn" -> <<"No such file or directory">>
      [] outcome = "exit"  -> <<"git clone failed: ", "stderr">>

\* Duration::from_secs(2u64.pow(attempt as u32 - 1))
Backoff(n) == U64Pow(2, n - 1)

\* the exclusive range 1..max_retries
RangeExhausted_exclusive(i, last) == i >= last

\* whether `for attempt in 1..=max_retries` is past its last value
RangeExhausted(i, last) == i > last

\* entry: the limits are read, last_error = None (lines 143-155)
EnterDownload(p) ==
    /\ pc[p] = "download"
    /\ max_retries' = [max_retries EXCEPT ![p] = RetriesOf(env[p])]
    /\ last_error' = [last_error EXCEPT ![p] = None]
    /\ attempt' = [attempt EXCEPT ![p] = 1]
    /\ pc' = [pc EXCEPT ![p] = "retry_loop"]
    /\ UNCHANGED <<builds, env, cutlass_version, slept, overflow_checks,
                   temp, cache, extracted_root, copy_stack, published,
                   result_err, clone_err, panic_msg, http_attempts,
                   clone_attempts, route, cache_lookups, cache_writes,
                   remove_result, versionVars>>

\* head of `for attempt in 1..=max_retries` and the backoff (lines 157-165).
\* An overflowing power panics when the script is built with overflow checks
\* and wraps otherwise.
RetryLoop(p) ==
    /\ pc[p] = "retry_loop"
    /\ IF RangeExhausted(attempt[p], max_retries[p])
       THEN /\ pc' = [pc EXCEPT ![p] = "clone"]
            /\ UNCHANGED <<slept, overflow_checks, panic_msg>>
       ELSE IF attempt[p] > 1
       THEN \E backoff \in {Backoff(attempt[p])} :
                \E checks \in BOOLEAN :
                  /\ backoff.overflow /\ overflow_checks[p] # None
                        => checks = overflow_checks[p][1]
                  /\ ~backoff.overflow => checks
                  /\ overflow_checks' =
                        IF backoff.overflow
                        THEN [overflow_checks EXCEPT ![p] = Some(checks)]
                        ELSE overflow_checks
                  /\ IF backoff.overflow /\ checks
                     THEN /\ pc' = [pc EXCEPT ![p] = "fatal"]
                          /\ panic_msg' = [panic_msg EXCEPT ![p] =
                                             Some("attempt to multiply with overflow")]
                          /\ UNCHANGED slept
                     ELSE /\ slept' = [slept EXCEPT ![p] = Some(backoff.val)]
                          /\ pc' = [pc EXCEPT ![p] = "http"]
                          /\ UNCHANGED panic_msg
       ELSE /\ pc' = [pc EXCEPT ![p] = "http"]
            /\ UNCHANGED <<slept, overflow_checks, panic_msg>>
    /\ UNCHANGED <<builds, env, cutlass_version, max_retries, attempt,
                   last_error, temp, cache, extracted_root, copy_stack,
                   published, result_err, clone_err, http_attempts,
                   clone_attempts, route, cache_lookups, cache_writes,
                   remove_result, versionVars>>

\* an attempt whose success does not leave the retry loop
HttpAttempt_no_return(p) ==
    /\ pc[p] = "http"
    /\ http_attempts' = [http_attempts EXCEPT ![p] = @ + 1]
    /\ \E outcome \in HttpOutcomes :
         /\ temp' = [temp EXCEPT ![p] =
                       IF outcome \in CreatesExtract
                       THEN @ \cup {ExtractDir} ELSE @]
         /\ IF outcome = "ok"
            THEN /\ extracted_root' = [extracted_root EXCEPT ![p] = ExtractDir]
                 /\ route' = [route EXCEPT ![p] = "http"]
                 /\ attempt' = [attempt EXCEPT ![p] = @ + 1]
                 /\ pc' = [pc EXCEPT ![p] = "retry_loop"]
                 /\ UNCHANGED last_error
            ELSE /\ last_error' = [last_error EXCEPT ![p] =
                        Some(<<"HTTP download failed: ", HttpErrorText(outcome)>>)]
                 /\ attempt' = [attempt EXCEPT ![p] = @ + 1]
                 /\ pc' = [pc EXCEPT ![p] = "retry_loop"]
                 /\ UNCHANGED <<extracted_root, route>>
    /\ UNCHANGED <<builds, env, cutlass_version, max_retries, slept,
                   overflow_checks, cache, copy_stack, published, result_err,
                   clone_err, panic_msg, clone_attempts, cache_lookups,
                   cache_writes, remove_result, versionVars>>

\* an attempt whose archive failures go straight to the clone fallback
HttpAttempt_archive_to_clone(p) ==
    /\ pc[p] = "http"
    /\ http_attempts' = [http_attempts EXCEPT ![p] = @ + 1]
    /\ \E outcome \in HttpOutcomes :
         /\ temp' = [temp EXCEPT ![p] =
                       IF outcome \in CreatesExtract
                       THEN @ \cup {ExtractDir} ELSE @]
         /\ IF outcome = "ok"
            THEN /\ extracted_root' = [extracted_root EXCEPT ![p] = ExtractDir]
                 /\ route' = [route EXCEPT ![p] = "http"]
                 /\ pc' = [pc EXCEPT ![p] = "mkcache"]
                 /\ UNCHANGED <<last_error, attempt>>
            ELSE /\ last_error' = [last_error EXCEPT ![p] =
                        Some(<<"HTTP download failed: ", HttpErrorText(outcome)>>)]
                 /\ attempt' = [attempt EXCEPT ![p] = @ + 1]
                 /\ pc' = [pc EXCEPT ![p] =
                             IF outcome \in {"unpack", "nodir"}
                             THEN "clone" ELSE "retry_loop"]
                 /\ UNCHANGED <<extracted_root, route>>
    /\ UNCHANGED <<builds, env, cutlass_version, max_retries, slept,
                   overflow_checks, cache, copy_stack, published, result_err,
                   clone_err, panic_msg, clone_attempts, cache_lookups,
                   cache_writes, remove_result, versionVars>>

\* one call of try_http_download and the match on its result
\* (lines 168-177, 197-241)
HttpAttempt(p) ==
    /\ pc[p] = "http"
    /\ http_attempts' = [http_attempts EXCEPT ![p] = @ + 1]
    /\ \E outcome \in HttpOutcomes :
         /\ temp' = [temp EXCEPT ![p] =
                       IF outcome \in CreatesExtract
                       THEN @ \cup {ExtractDir} ELSE @]
         /\ IF outcome = "ok"
            THEN /\ extracted_root' = [extracted_root EXCEPT ![p] = ExtractDir]
                 /\ route' = [route EXCEPT ![p] = "http"]
                 /\ pc' = [pc EXCEPT ![p] = "mkcache"]
                 /\ UNCHANGED <<last_error, attempt>>
            ELSE /\ last_error' = [last_error EXCEPT ![p] =
                        Some(<<"HTTP download failed: ", HttpErrorText(outcome)>>)]
                 /\ attempt' = [attempt EXCEPT ![p] = @ + 1]
                 /\ pc' = [pc EXCEPT ![p] = "retry_loop"]
                 /\ UNCHANGED <<extracted_root, route>>
    /\ UNCHANGED <<builds, env, cutlass_version, max_retries, slept,
                   overflow_checks, cache, copy_stack, published, result_err,
                   clone_err, panic_msg, clone_attempts, cache_lookups,
                   cache_writes, remove_result, versionVars>>

\* a clone fallback whose failure starts the download over
GitClone_restarts_download(p) ==
    /\ pc[p] = "clone"
    /\ clone_attempts' = [clone_attempts EXCEPT ![p] = @ + 1]
    /\ \E removed \in BOOLEAN, outcome \in CloneOutcomes :
         LET stale == IF removed THEN temp[p] \ {CloneDir} ELSE temp[p]
         IN  /\ outcome = "ok" => CloneDir \notin stale
             /\ IF outcome = "ok"
                THEN /\ temp' = [temp EXCEPT ![p] = stale \cup {CloneDir}]
                     /\ extracted_root' = [extracted_root EXCEPT ![p] = CloneDir]
                     /\ route' = [route EXCEPT ![p] = "clone"]
                     /\ pc' = [pc EXCEPT ![p] = "mkcache"]
                     /\ UNCHANGED <<clone_err, result_err, panic_msg>>
                ELSE /\ temp' = [temp EXCEPT ![p] = stale]
                     /\ clone_err' = [clone_err EXCEPT ![p] =
                                        Some(CloneErrorText(outcome))]
                     /\ result_err' = [result_err EXCEPT ![p] =
                          Some(UnwrapOr(last_error[p],
                                        <<"All download attempts failed">>))]
                     /\ panic_msg' = [panic_msg EXCEPT ![p] =
                                        Some("Failed to obtain CUTLASS")]
                     /\ pc' = [pc EXCEPT ![p] = "download"]
                     /\ UNCHANGED <<extracted_root, route>>
    /\ UNCHANGED <<builds, env, cutlass_version, max_retries, attempt,
                   last_error, slept, overflow_checks, cache, copy_stack,
                   published, http_attempts, cache_lookups, cache_writes,
                   remove_result, versionVars>>

\* the git clone fallback, the returned Err and main's handling of it
\* (lines 181-194, 243-272, 86-104).  The stale clone directory is removed
\* best-effort; git refuses to clone into a directory that is still there.
GitClone(p) ==
    /\ pc[p] = "clone"
    /\ clone_attempts' = [clone_attempts EXCEPT ![p] = @ + 1]
    /\ \E removed \in BOOLEAN, outcome \in CloneOutcomes :
         LET stale == IF removed THEN temp[p] \ {CloneDir} ELSE temp[p]
         IN  /\ outcome = "ok" => CloneDir \notin stale
             /\ IF outcome = "ok"
                THEN /\ temp' = [temp EXCEPT ![p] = stale \cup {CloneDir}]
                     /\ extracted_root' = [extracted_root EXCEPT ![p] = CloneDir]
                     /\ route' = [route EXCEPT ![p] = "clone"]
                     /\ pc' = [pc EXCEPT ![p] = "mkcache"]
                     /\ UNCHANGED <<clone_err, result_err, panic_msg>>
                ELSE /\ temp' = [temp EXCEPT ![p] = stale]
                     /\ clone_err' = [clone_err EXCEPT ![p] =
                                        Some(CloneErrorText(outcome))]
                     /\ result_err' = [result_err EXCEPT ![p] =
                          Some(UnwrapOr(last_error[p],
                                        <<"All download attempts failed">>))]
                     /\ panic_msg' = [panic_msg EXCEPT ![p] =
                                        Some("Failed to obtain CUTLASS")]
                     /\ pc' = [pc EXCEPT ![p] = "fatal"]
                     /\ UNCHANGED <<extracted_root, route>>
    /\ UNCHANGED <<builds, env, cutlass_version, max_retries, attempt,
                   last_error, slept, overflow_checks, cache, copy_stack,
                   published, http_attempts, cache_lookups, cache_writes,
                   remove_result, versionVars>>


(***************************************************************************)
(* main, after a successful fetch: copy into the cache, publish, clean up. *)
(***************************************************************************)
\* return from every copy_dir_all frame whose directory listing is exhausted
RECURSIVE Unwind(_)
Unwind(stack) ==
    IF Len(stack) > 0 /\ stack[Len(stack)].todo = {}
    THEN Unwind(SubSeq(stack, 1, Len(stack) - 1))
    ELSE stack

\* a materialization that empties the slot before copying into it
MkCache_fresh(p) ==
    /\ pc[p] = "mkcache"
    /\ \E ok \in BOOLEAN :
         IF ok
         THEN LET stack == Unwind(<<[dir |-> <<>>, todo |-> Children(<<>>)]>>)
              IN  /\ cache' = [cache EXCEPT ![cutlass_version[p]] = {<<>>}]
                  /\ cache_writes' = [cache_writes EXCEPT ![p] = @ + 1]
                  /\ copy_stack' = [copy_stack EXCEPT ![p] = stack]
                  /\ pc' = [pc EXCEPT ![p] =
                              IF stack = <<>> THEN "publish" ELSE "copy"]
                  /\ UNCHANGED panic_msg
         ELSE /\ pc' = [pc EXCEPT ![p] = "fatal"]
              /\ panic_msg' = [panic_msg EXCEPT ![p] =
                                 Some("Failed to create cache directory")]
              /\ UNCHANGED <<cache, cache_writes, copy_stack>>
    /\ UNCHANGED <<builds, env, cutlass_version, max_retries, attempt,
                   last_error, slept, overflow_checks, temp, extracted_root,
                   published, result_err, clone_err, http_attempts,
                   clone_attempts, route, cache_lookups, remove_result,
                   versionVars>>

\* fs::create_dir_all(&cache_dir) and the entry of copy_dir_all, which
\* creates the destination again and lists the source (lines 73-74, 275-276)
MkCache(p) ==
    /\ pc[p] = "mkcache"
    /\ \E ok \in BOOLEAN :
         IF ok
         THEN LET stack == Unwind(<<[dir |-> <<>>, todo |-> Children(<<>>)]>>)
              IN  /\ cache' = [cache EXCEPT ![cutlass_version[p]] = @ \cup {<<>>}]
                  /\ cache_writes' = [cache_writes EXCEPT ![p] = @ + 1]
                  /\ copy_stack' = [copy_stack EXCEPT ![p] = stack]
                  /\ pc' = [pc EXCEPT ![p] =
                              IF stack = <<>> THEN "publish" ELSE "copy"]
                  /\ UNCHANGED panic_msg
         ELSE /\ pc' = [pc EXCEPT ![p] = "fatal"]
              /\ panic_msg' = [panic_msg EXCEPT ![p] =
                                 Some("Failed to create cache directory")]
              /\ UNCHANGED <<cache, cache_writes, copy_stack>>
    /\ UNCHANGED <<builds, env, cutlass_version, max_retries, attempt,
                   last_error, slept, overflow_checks, temp, extracted_root,
                   published, result_err, clone_err, http_attempts,
                   clone_attempts, route, cache_lookups, remove_result,
                   versionVars>>

\* a copy that creates subdirectories without descending into them
CopyStep_shallow(p) ==
    /\ pc[p] = "copy"
    /\ LET n   == Len(copy_stack[p])
           top == copy_stack[p][n]
       IN  \E e \in top.todo, ok \in BOOLEAN :
             IF ok
             THEN LET rest  == [copy_stack[p] EXCEPT ![n].todo = @ \ {e}]
                      stack == Unwind(rest)
                  IN  /\ cache' = [cache EXCEPT ![cutlass_version[p]] = @ \cup {e}]
                      /\ cache_writes' = [cache_writes EXCEPT ![p] = @ + 1]
                      /\ copy_stack' = [copy_stack EXCEPT ![p] = stack]
                      /\ pc' = [pc EXCEPT ![p] =
                                  IF stack = <<>> THEN "publish" ELSE "copy"]
                      /\ UNCHANGED panic_msg
             ELSE /\ pc' = [pc EXCEPT ![p] = "fatal"]
                  /\ panic_msg' = [panic_msg EXCEPT ![p] =
                                     Some("Failed to copy to cache")]
                  /\ UNCHANGED <<cache, cache_writes, copy_stack>>
    /\ UNCHANGED <<builds, env, cutlass_version, max_retries, attempt,
                   last_error, slept, overflow_checks, temp, extracted_root,
                   published, result_err, clone_err, http_attempts,
                   clone_attempts, route, cache_lookups, remove_result,
                   versionVars>>

\* one iteration of the loop of copy_dir_all (lines 276-286): the next entry,
\* in the order read_dir happens to yield, is a directory (created, then
\* descended into) or a file (copied).  An I/O error aborts the build.
CopyStep(p) ==
    /\ pc[p] = "copy"
    /\ LET n   == Len(copy_stack[p])
           top == copy_stack[p][n]
       IN  \E e \in top.todo, ok \in BOOLEAN :
             IF ok
             THEN LET rest  == [copy_stack[p] EXCEPT ![n].todo = @ \ {e}]
                      stack == Unwind(IF e \in SourceDirs
                                      THEN Append(rest, [dir |-> e,
                                                         todo |-> Children(e)])
                                      ELSE rest)
                  IN  /\ cache' = [cache EXCEPT ![cutlass_version[p]] = @ \cup {e}]
                      /\ cache_writes' = [cache_writes EXCEPT ![p] = @ + 1]
                      /\ copy_stack' = [copy_stack EXCEPT ![p] = stack]
                      /\ pc' = [pc EXCEPT ![p] =
                                  IF stack = <<>> THEN "publish" ELSE "copy"]
                      /\ UNCHANGED panic_msg
             ELSE /\ pc' = [pc EXCEPT ![p] = "fatal"]
                  /\ panic_msg' = [panic_msg EXCEPT ![p] =
                                     Some("Failed to copy to cache")]
                  /\ UNCHANGED <<cache, cache_writes, copy_stack>>
    /\ UNCHANGED <<builds, env, cutlass_version, max_retries, attempt,
                   last_error, slept, overflow_checks, temp, extracted_root,
                   published, result_err, clone_err, http_attempts,
                   clone_attempts, route, cache_lookups, remove_result,
                   versionVars>>

\* the paths are emitted (lines 76-81)
Publish(p) ==
    /\ pc[p] = "publish"
    /\ LET cache_dir   == CachePath(cutlass_version[p])
           include_dir == PathJoin(cache_dir, "include")
       IN  published' = [published EXCEPT ![p] =
                           emit_cargo_keys(cache_dir, include_dir)]
    /\ pc' = [pc EXCEPT ![p] = "cleanup"]
    /\ UNCHANGED <<builds, env, cutlass_version, max_retries, attempt,
                   last_error, slept, overflow_checks, temp, cache,
                   extracted_root, copy_stack, result_err, clone_err,
                   panic_msg, http_attempts, clone_attempts, route,
                   cache_lookups, cache_writes, remove_result, versionVars>>

\* what fs::remove_dir_all(&temp_dir) may leave behind: nothing when it
\* succeeds, otherwise the scratch directory and any of its children
RemoveDirAll(dirs, ok) ==
    IF ok THEN {{}} ELSE {left \in SUBSET dirs : TempDir \in left}

\* best-effort removal of the scratch directory (line 84); main returns
Cleanup(p) ==
    /\ pc[p] = "cleanup"
    /\ \E ok \in BOOLEAN :
         /\ \E left \in RemoveDirAll(temp[p], ok) :
              temp' = [temp EXCEPT ![p] = left]
         /\ remove_result' = [remove_result EXCEPT ![p] =
                                IF ok THEN "ok" ELSE "err"]
    /\ pc' = [pc EXCEPT ![p] = "published"]
    /\ UNCHANGED <<builds, env, cutlass_version, max_retries, attempt,
                   last_error, slept, overflow_checks, cache, extracted_root,
                   copy_stack, published, result_err, clone_err, panic_msg,
                   http_attempts, clone_attempts, route, cache_lookups,
                   cache_writes, versionVars>>

Next ==
    \E p \in builds :
        \/ Start(p)
        \/ OverrideCheck(p)
        \/ CacheCheck(p)
        \/ MkTemp(p)
        \/ EnterDownload(p)
        \/ RetryLoop(p)
        \/ HttpAttempt(p)
        \/ GitClone(p)
        \/ MkCache(p)
        \/ CopyStep(p)
        \/ Publish(p)
        \/ Cleanup(p)

Spec == Init /\ [][Next]_vars

\* the next statement of a running build script.  main is one sequential
\* thread and every call it makes returns: the HTTP client has a timeout, the
\* sleeps are finite, git exits.
Run(p) ==
    \/ OverrideCheck(p)
    \/ CacheCheck(p)
    \/ MkTemp(p)
    \/ EnterDownload(p)
    \/ RetryLoop(p)
    \/ HttpAttempt(p)
    \/ GitClone(p)
    \/ MkCache(p)
    \/ CopyStep(p)
    \/ Publish(p)
    \/ Cleanup(p)

\* what earlier runs can have left in a cache slot: nothing, the start of an
\* aborted copy, the whole tree
SlotStates == {{}, {<<>>, <<"include">>}, {<<>>} \cup SourceTree}

\* what earlier runs can have left under OUT_DIR: nothing, or a scratch
\* directory that remove_dir_all failed to remove
TempStates == {{}, {TempDir, CloneDir}}

\* one run of main from its first statement, in any environment and on any
\* of these leftovers
InitOnce ==
    /\ builds = {1}
    /\ \E e \in Envs :
         /\ env = [p \in Procs |-> IF p = 1 THEN e ELSE NoEnv]
         /\ cutlass_version =
              [p \in Procs |-> IF p = 1
                               THEN CutlassVersionOf(e.CARGO_PKG_VERSION)
                               ELSE <<>>]
    /\ pc = [p \in Procs |-> IF p = 1 THEN "override_check" ELSE "idle"]
    /\ max_retries = [p \in Procs |-> 0]
    /\ attempt = [p \in Procs |-> 0]
    /\ last_error = [p \in Procs |-> None]
    /\ slept = [p \in Procs |-> None]
    /\ overflow_checks = [p \in Procs |-> None]
    /\ \E t \in TempStates : temp = [p \in Procs |-> IF p = 1 THEN t ELSE {}]
    /\ cache \in [CacheSlots -> SlotStates]
    /\ extracted_root = [p \in Procs |-> ""]
    /\ copy_stack = [p \in Procs |-> <<>>]
    /\ published = [p \in Procs |-> {}]
    /\ result_err = [p \in Procs |-> None]
    /\ clone_err = [p \in Procs |-> None]
    /\ panic_msg = [p \in Procs |-> None]
    /\ http_attempts = [p \in Procs |-> 0]
    /\ clone_attempts = [p \in Procs |-> 0]
    /\ route = [p \in Procs |-> "none"]
    /\ cache_lookups = [p \in Procs |-> 0]
    /\ cache_writes = [p \in Procs |-> 0]
    /\ remove_result = [p \in Procs |-> "none"]
    /\ NoVersionRun

NextOnce == \E p \in builds : Run(p)

\* a started script keeps executing until main returns or panics
SpecOnce == InitOnce /\ [][NextOnce]_vars /\ \A p \in Procs : WF_vars(Run(p))

(***************************************************************************)
(* download_cutlass_with_retry on its own, for every limit up to           *)
(* MaxAttempts.                                                            *)
(***************************************************************************)
RetryEnv(retries) ==
    [CUTLASS_DIR |-> None,
     CARGO_PKG_VERSION |-> <<"4", ".", "2", ".", "0">>,
     CUTLASS_VERSION |-> None,
     CUTLASS_DOWNLOAD_RETRIES |-> retries]

\* unset, not a number, or any number up to MaxAttempts
RetryLimits ==
    {None, Some(<<"x">>), Some(<<"+", "2">>)}
      \cup {Some(ToDigits(n)) : n \in 0..MaxAttempts}

InitRetry ==
    /\ builds = {1}
    /\ \E r \in RetryLimits :
         env = [p \in Procs |-> IF p = 1 THEN RetryEnv(r) ELSE NoEnv]
    /\ pc = [p \in Procs |-> IF p = 1 THEN "download" ELSE "idle"]
    /\ cutlass_version =
         [p \in Procs |-> IF p = 1
                          THEN CutlassVersionOf(RetryEnv(None).CARGO_PKG_VERSION)
                          ELSE <<>>]
    /\ max_retries = [p \in Procs |-> 0]
    /\ attempt = [p \in Procs |-> 0]
    /\ last_error = [p \in Procs |-> None]
    /\ slept = [p \in Procs |-> None]
    /\ overflow_checks = [p \in Procs |-> None]
    /\ temp = [p \in Procs |-> IF p = 1 THEN {TempDir} ELSE {}]
    /\ cache = [v \in CacheSlots |-> {}]
    /\ extracted_root = [p \in Procs |-> ""]
    /\ copy_stack = [p \in Procs |-> <<>>]
    /\ published = [p \in Procs |-> {}]
    /\ result_err = [p \in Procs |-> None]
    /\ clone_err = [p \in Procs |-> None]
    /\ panic_msg = [p \in Procs |-> None]
    /\ http_attempts = [p \in Procs |-> 0]
    /\ clone_attempts = [p \in Procs |-> 0]
    /\ route = [p \in Procs |-> "none"]
    /\ cache_lookups = [p \in Procs |-> 1]
    /\ cache_writes = [p \in Procs |-> 0]
    /\ remove_result = [p \in Procs |-> "none"]
    /\ NoVersionRun

NextRetry ==
    \E p \in builds :
        \/ EnterDownload(p)
        \/ RetryLoop(p)
        \/ HttpAttempt(p)
        \/ GitClone(p)

SpecRetry == InitRetry /\ [][NextRetry]_vars

(***************************************************************************)
(* Two builds of the same version, launched together on an empty cache.    *)
(***************************************************************************)
\* the environment of both builds: no override, one HTTP attempt allowed
RaceEnv ==
    [CUTLASS_DIR |-> None,
     CARGO_PKG_VERSION |-> <<"4", ".", "2", ".", "0">>,
     CUTLASS_VERSION |-> None,
     CUTLASS_DOWNLOAD_RETRIES |-> Some(<<"1">>)]

\* both scripts have resolved the version (lines 8-22) and nothing else
InitRace ==
    /\ builds = Procs
    /\ env = [p \in Procs |-> RaceEnv]
    /\ pc = [p \in Procs |-> "override_check"]
    /\ cutlass_version =
         [p \in Procs |-> CutlassVersionOf(RaceEnv.CARGO_PKG_VERSION)]
    /\ max_retries = [p \in Procs |-> 0]
    /\ attempt = [p \in Procs |-> 0]
    /\ last_error = [p \in Procs |-> None]
    /\ slept = [p \in Procs |-> None]
    /\ overflow_checks = [p \in Procs |-> None]
    /\ temp = [p \in Procs |-> {}]
    /\ cache = [v \in CacheSlots |-> {}]
    /\ extracted_root = [p \in Procs |-> ""]
    /\ copy_stack = [p \in Procs |-> <<>>]
    /\ published = [p \in Procs |-> {}]
    /\ result_err = [p \in Procs |-> None]
    /\ clone_err = [p \in Procs |-> None]
    /\ panic_msg = [p \in Procs |-> None]
    /\ http_attempts = [p \in Procs |-> 0]
    /\ clone_attempts = [p \in Procs |-> 0]
    /\ route = [p \in Procs |-> "none"]
    /\ cache_lookups = [p \in Procs |-> 0]
    /\ cache_writes = [p \in Procs |-> 0]
    /\ remove_result = [p \in Procs |-> "none"]
    /\ NoVersionRun

\* the steps of the builds interleave at every filesystem operation
NextRace ==
    \E p \in builds :
        \/ OverrideCheck(p)
        \/ CacheCheck(p)
        \/ MkTemp(p)
        \/ EnterDownload(p)
        \/ RetryLoop(p)
        \/ HttpAttempt(p)
        \/ GitClone(p)
        \/ MkCache(p)
        \/ CopyStep(p)
        \/ Publish(p)
        \/ Cleanup(p)

SpecRace == InitRace /\ [][NextRace]_vars

(***************************************************************************)
(* The version mapper on its own.                                          *)
(***************************************************************************)
InitVersion ==
    /\ builds = {}
    /\ IdleRun
    /\ vout = None
    /\ \/ \E sem \in SemVers : vsem = Some(sem) /\ vin = Compose(sem)
       \/ vsem = None /\ vin \in RawVersions \cup ExampleVersions

\* get_cutlass_version is applied to the input
MapVersion ==
    /\ vout = None
    /\ vout' = Some(get_cutlass_version(vin))
    /\ UNCHANGED <<vsem, vin, runVars>>

NextVersion == MapVersion

SpecVersion == InitVersion /\ [][NextVersion]_vars


(***************************************************************************)
(* Properties.                                                             *)
(***************************************************************************)
\* the value published under a key by process p
PublishedValues(p, key) == {kv.value : kv \in {x \in published[p] : x.key = key}}

IncludeKeys == {"include", "include_dir", "INCLUDE_DIR",
                "rustc-env=CUTLASS_INCLUDE_DIR"}
RootKeys == {"root", "rustc-env=CUTLASS_ROOT"}

\* process p published exactly this root and this include directory
PublishedExactly(p, root, include_dir) ==
    /\ \A k \in RootKeys : PublishedValues(p, k) = {root}
    /\ \A k \in IncludeKeys : PublishedValues(p, k) = {include_dir}
    /\ \A kv \in published[p] : kv.key \in RootKeys \cup IncludeKeys

\* the include directory of a CUTLASS_DIR value / of a cache slot
UserInclude(dir) == [base |-> "CUTLASS_DIR", name |-> dir, rel |-> <<"include">>]
SlotRoot(version) == [base |-> "cache", name |-> version, rel |-> <<>>]
SlotInclude(version) == [base |-> "cache", name |-> version, rel |-> <<"include">>]

\* C1: for every well-formed version MAJOR.MINOR.PATCH[-PRERELEASE][+BUILD]
\* get_cutlass_version returns exactly MAJOR.MINOR.PATCH.
C1_WellFormedMapsToCore ==
    (vsem # None /\ vout # None) => vout[1] = Core(vsem[1])

\* a version with a dotted pre-release and a build suffix holding '-' was mapped
C1_Witness ==
    /\ vsem # None /\ vout # None
    /\ "." \in Range(vsem[1].pre)
    /\ "-" \in Range(vsem[1].build)
    /\ vout[1] = Core(vsem[1])

\* C2: a run whose CUTLASS_DIR has no include/ ends fatally in the override
\* check: no HTTP attempt, no clone attempt, no cache lookup, nothing published.
C2_InvalidOverrideIsFatal ==
    \A p \in Procs :
        (/\ env[p].CUTLASS_DIR # None
         /\ <<"include">> \notin UserFs(env[p].CUTLASS_DIR[1])
         /\ pc[p] # "override_check")
        => /\ pc[p] = "fatal"
           /\ http_attempts[p] = 0
           /\ clone_attempts[p] = 0
           /\ cache_lookups[p] = 0
           /\ cache_writes[p] = 0
           /\ published[p] = {}

\* an invalid override ended fatally although the cache slot holds include/
C2_Witness ==
    \E p \in Procs :
        /\ env[p].CUTLASS_DIR = Some(BadDir)
        /\ pc[p] = "fatal"
        /\ <<"include">> \in cache[cutlass_version[p]]

\* C3: a run whose CUTLASS_DIR holds include/ publishes root = CUTLASS_DIR and
\* include = CUTLASS_DIR/include and ends, whatever the cache holds, with no
\* cache lookup, no cache write, no HTTP attempt and no clone attempt.
C3_ValidOverridePublishes ==
    \A p \in Procs :
        (/\ env[p].CUTLASS_DIR # None
         /\ <<"include">> \in UserFs(env[p].CUTLASS_DIR[1])
         /\ pc[p] # "override_check")
        => /\ pc[p] = "published"
           /\ PublishedExactly(p, UserPath(env[p].CUTLASS_DIR[1]),
                               UserInclude(env[p].CUTLASS_DIR[1]))
           /\ http_attempts[p] = 0
           /\ clone_attempts[p] = 0
           /\ cache_lookups[p] = 0
           /\ cache_writes[p] = 0

\* a valid override was published while the cache slot of the version is
\* partially populated
C3_Witness ==
    \E p \in Procs :
        /\ env[p].CUTLASS_DIR = Some(GoodDir)
        /\ pc[p] = "published"
        /\ <<"include">> \in cache[cutlass_version[p]]
        /\ ~(SourceFiles \subseteq cache[cutlass_version[p]])

\* C4: without an override, a cache check that finds <slot>/include ends the
\* run published, with the slot as root and <slot>/include as include path,
\* and with no HTTP attempt and no clone attempt.
C4_CacheHitPublishesSlot ==
    [][\A p \in Procs :
         (/\ pc[p] = "cache_check"
          /\ pc'[p] # "cache_check"
          /\ <<"include">> \in cache[cutlass_version[p]])
         => /\ env[p].CUTLASS_DIR = None
            /\ pc'[p] = "published"
            /\ published'[p] =
                 {[key |-> k, value |-> SlotRoot(cutlass_version[p])] : k \in RootKeys}
                 \cup {[key |-> k, value |-> SlotInclude(cutlass_version[p])] :
                         k \in IncludeKeys}
            /\ http_attempts'[p] = 0
            /\ clone_attempts'[p] = 0
            /\ temp'[p] = temp[p]
            /\ cache' = cache]_vars

\* a run without override ended on a cache hit
C4_Witness ==
    \E p \in Procs :
        /\ env[p].CUTLASS_DIR = None
        /\ route[p] = "cache"
        /\ pc[p] = "published"
        /\ PublishedExactly(p, SlotRoot(cutlass_version[p]),
                            SlotInclude(cutlass_version[p]))

C6_BackoffIsPowerOfTwo ==
    \A p \in Procs :
        pc[p] = "http" =>
            IF attempt[p] = 1 THEN slept[p] = None
            ELSE /\ slept[p] # None
                 /\ NatOf(slept[p][1]) = Pow2Nat(attempt[p] - 1)

\* the include subtree of the library
IncludeTree == {e \in SourceTree : e[1] = "include"}

\* whether a published path is present on the filesystem
Present(path) ==
    path.rel \in (IF path.base = "CUTLASS_DIR" THEN UserFs(path.name)
                  ELSE cache[path.name])

\* whether the include subtree under the base of a published path is complete
Complete(path) ==
    IncludeTree \subseteq (IF path.base = "CUTLASS_DIR" THEN UserFs(path.name)
                           ELSE cache[path.name])

Fetched(p) == route[p] \in {"http", "clone"}

\* C7 (as claimed): after every run in which a fetch succeeds, the cache
\* slot of the version holds the populated include/ subtree and the scratch
\* directories no longer exist.
C7_AfterFetchCachedAndClean ==
    \A p \in Procs :
        (Fetched(p) /\ pc[p] \in Terminal)
        => /\ IncludeTree \subseteq cache[cutlass_version[p]]
           /\ temp[p] = {}

\* C7 (amended): after every run in which a fetch succeeds and that ends
\* published, the cache slot of the version holds the populated include/
\* subtree, and the scratch directories no longer exist if their best-effort
\* removal succeeded.
C7_AfterPublishedFetchCached ==
    \A p \in Procs :
        (Fetched(p) /\ pc[p] = "published")
        => /\ IncludeTree \subseteq cache[cutlass_version[p]]
           /\ remove_result[p] # "none"
           /\ remove_result[p] = "ok" => temp[p] = {}

\* a run fetched by clone, filled the slot and removed its scratch directories
C7_Witness ==
    \E p \in Procs :
        /\ route[p] = "clone"
        /\ pc[p] = "published"
        /\ IncludeTree \subseteq cache[cutlass_version[p]]
        /\ remove_result[p] = "ok"
        /\ temp[p] = {}

\* C8 (as claimed): a run either publishes an include path whose directory
\* exists and holds the complete include tree, or ends fatally without
\* publishing.
C8_PublishedIsComplete ==
    \A p \in Procs :
        /\ pc[p] = "fatal" => published[p] = {}
        /\ \A k \in IncludeKeys : \A v \in PublishedValues(p, k) :
              Present(v) /\ Complete(v)

\* C8 (amended): a run either publishes an include path whose directory
\* exists, or ends fatally without publishing; after an HTTP fetch or a clone
\* the published include tree is complete, while the override and the cache
\* hit only check that include/ exists.
C8_PublishedExists ==
    \A p \in Procs :
        /\ pc[p] = "fatal" => published[p] = {}
        /\ pc[p] = "published" => published[p] # {}
        /\ \A k \in IncludeKeys : \A v \in PublishedValues(p, k) :
              /\ Present(v)
              /\ Fetched(p) => Complete(v)

\* a cache hit published an include directory that is only partly populated
C8_Witness ==
    \E p \in Procs :
        /\ route[p] = "cache"
        /\ pc[p] = "published"
        /\ \E v \in PublishedValues(p, "include") : Present(v) /\ ~Complete(v)

\* whether message msg contains the text sub
Contains(msg, sub) ==
    \E i \in 1..Len(msg) : SubSeq(msg, i, i + Len(sub) - 1) = sub

\* C9 (as claimed): when all HTTP attempts failed and the clone failed, the
\* error returned by download_cutlass_with_retry contains both the clone's
\* error and the last HTTP error.
C9_ErrorCombinesCloneAndHttp ==
    \A p \in Procs :
        (clone_err[p] # None /\ last_error[p] # None /\ result_err[p] # None)
        => /\ Contains(result_err[p][1], last_error[p][1])
           /\ Contains(result_err[p][1], clone_err[p][1])

\* C10 (as claimed): when CUTLASS_VERSION is set, the version resolved for
\* the cache lookup, the download and the clone is that value.
C10_VersionEnvOverrides ==
    \A p \in Procs :
        (env[p].CUTLASS_VERSION # None /\ pc[p] # "idle")
        => cutlass_version[p] = env[p].CUTLASS_VERSION[1]

\* the keys under which process p published something
PublishedKeys(p) == {kv.key : kv \in published[p]}

\* C11 (as claimed): every run that ends published has published the include
\* directory, the root and, under a key of its own, the resolved version.
C11_PublishesPathsAndVersion ==
    \A p \in Procs :
        pc[p] = "published" =>
            /\ IncludeKeys \subseteq PublishedKeys(p)
            /\ RootKeys \subseteq PublishedKeys(p)
            /\ PublishedKeys(p) \ (IncludeKeys \cup RootKeys) # {}

\* C11 (amended): every run that ends published has published the include
\* directory under its four keys and the root under its two keys, the include
\* directory being <root>/include; nothing else is published, the resolved
\* version only appears in a warning line.
C11_PublishesPathsOnly ==
    \A p \in Procs :
        pc[p] = "published" =>
            /\ PublishedKeys(p) = IncludeKeys \cup RootKeys
            /\ \E root \in PublishedValues(p, "root") :
                 PublishedExactly(p, root, [root EXCEPT !.rel = <<"include">>])

\* a run that fetched over HTTP ended published
C11_Witness ==
    \E p \in Procs :
        /\ pc[p] = "published"
        /\ route[p] = "http"
        /\ PublishedKeys(p) = IncludeKeys \cup RootKeys

\* the part of s before its first '-' or '+'
BeforeSuffix(s) ==
    LET cut == CHOOSE k \in 1..(Len(s) + 1) :
                   /\ k = Len(s) + 1 \/ s[k] \in {"-", "+"}
                   /\ \A j \in 1..(k - 1) : s[j] \notin {"-", "+"}
    IN  SubSeq(s, 1, cut - 1)

\* the first three dot-separated segments of s, dots included: s up to its
\* third dot, or all of s when it has fewer than three dots
FirstThreeSegments(s) ==
    LET dots == {i \in 1..Len(s) : s[i] = "."}
    IN  IF Cardinality(dots) < 3 THEN s
        ELSE LET third == CHOOSE i \in dots :
                              Cardinality({j \in dots : j < i}) = 2
             IN  SubSeq(s, 1, third - 1)

\* C12: for every input get_cutlass_version returns the first min(n, 3)
\* dot-separated segments, rejoined with '.', of the part of the input before
\* its first '-' or '+'; a short input gives a shorter result, not an error.
C12_FirstThreeSegmentsOfBase ==
    vout # None => vout[1] = FirstThreeSegments(BeforeSuffix(vin))

\* 4.2.0.1 was mapped to 4.2.0
C12_Witness ==
    /\ vin = <<"4", ".", "2", ".", "0", ".", "1">>
    /\ vout = Some(<<"4", ".", "2", ".", "0">>)

\* C13: within a run, once an HTTP attempt or the clone has succeeded no
\* further HTTP attempt and no clone attempt is made; the clone is attempted at
\* most once, and only when every one of the max_retries HTTP attempts failed.
C13_StagesShortCircuit ==
    [][\A p \in Procs :
         /\ (Fetched(p) /\ pc'[p] # "override_check")
               => /\ http_attempts'[p] = http_attempts[p]
                  /\ clone_attempts'[p] = clone_attempts[p]
                  /\ route'[p] = route[p]
         /\ route'[p] = "http" => clone_attempts'[p] = 0
         /\ clone_attempts'[p] <= 1
         /\ clone_attempts'[p] > clone_attempts[p]
               => /\ route[p] = "none"
                  /\ http_attempts[p] = max_retries[p]
                  /\ attempt[p] = max_retries[p] + 1]_vars

\* the second of three allowed HTTP attempts succeeded and the run ended
\* without a third attempt and without a clone
C13_Witness ==
    \E p \in Procs :
        /\ route[p] = "http"
        /\ pc[p] = "published"
        /\ max_retries[p] = 3
        /\ http_attempts[p] = 2
        /\ clone_attempts[p] = 0

\* C14: with two builds of one version racing on an empty slot, a cache check
\* made while the other build is still copying and include/ already exists
\* reports a hit and publishes the slot although the tree is incomplete.
C14_HitDuringCopyPublishesPartial ==
    [][\A p \in Procs : \A q \in Procs \ {p} :
         (/\ pc[q] = "cache_check"
          /\ pc'[q] # "cache_check"
          /\ pc[p] = "copy"
          /\ cutlass_version[p] = cutlass_version[q]
          /\ <<"include">> \in cache[cutlass_version[q]]
          /\ ~(SourceTree \subseteq cache[cutlass_version[q]]))
         => /\ pc'[q] = "published"
            /\ route'[q] = "cache"
            /\ PublishedExactly(q, SlotRoot(cutlass_version[q]),
                                SlotInclude(cutlass_version[q]))'
            /\ ~(SourceTree \subseteq cache'[cutlass_version[q]])
            /\ pc'[p] = "copy"]_vars

\* one build has published the slot from the cache while the other is still
\* copying and no header has arrived under include/ yet
C14_Witness ==
    \E p \in Procs : \E q \in Procs \ {p} :
        /\ pc[q] = "published"
        /\ route[q] = "cache"
        /\ pc[p] = "copy"
        /\ cutlass_version[p] = cutlass_version[q]
        /\ SlotInclude(cutlass_version[q]) \in PublishedValues(q, "include")
        /\ cache[cutlass_version[q]] \cap IncludeTree = {<<"include">>}

\* C15: no step removes anything from a cache slot; a slot changes only by
\* the materialization of a build of that version; the only removals are of
\* scratch directories (the stale clone directory, the final cleanup); a run
\* on the override or the cache-hit path writes nothing to the cache.
C15_CacheNeverShrinks ==
    [][/\ \A v \in CacheSlots :
            /\ cache[v] \subseteq cache'[v]
            /\ cache'[v] # cache[v]
                  => \E p \in builds : /\ cutlass_version[p] = v
                                      /\ pc[p] \in {"mkcache", "copy"}
                                      /\ Fetched(p)
       /\ \A p \in Procs :
            /\ ~(temp[p] \subseteq temp'[p]) => pc[p] \in {"clone", "cleanup"}
            /\ route'[p] \in {"override", "cache"} => cache_writes'[p] = 0
            /\ (route[p] \in {"override", "cache"} /\ route'[p] = route[p])
                  => cache' = cache]_vars

\* a fetched run filled its slot and removed its scratch directory while the
\* slot of the other version still holds what an aborted copy left there
C15_Witness ==
    \E p \in Procs :
        /\ pc[p] = "published"
        /\ Fetched(p)
        /\ remove_result[p] = "ok"
        /\ SourceTree \subseteq cache[cutlass_version[p]]
        /\ \E v \in CacheSlots \ {cutlass_version[p]} :
              cache[v] = {<<>>, <<"LICENSE">>}

\* C16: a run without an override that finds include/ in a slot left partial
\* by an aborted copy publishes the slot as a cache hit, makes no HTTP or
\* clone attempt and leaves the partial entry as it is.
C16_PartialSlotIsAHit ==
    [][\A p \in Procs :
         (/\ pc[p] = "cache_check"
          /\ pc'[p] # "cache_check"
          /\ <<"include">> \in cache[cutlass_version[p]]
          /\ ~(SourceTree \subseteq cache[cutlass_version[p]]))
         => /\ env[p].CUTLASS_DIR = None
            /\ pc'[p] = "published"
            /\ route'[p] = "cache"
            /\ http_attempts'[p] = 0
            /\ clone_attempts'[p] = 0
            /\ cache_writes'[p] = 0
            /\ cache' = cache
            /\ PublishedExactly(p, SlotRoot(cutlass_version[p]),
                                SlotInclude(cutlass_version[p]))']_vars

\* a run was served from a slot in which a copy had stopped after include/
\* and one header
C16_Witness ==
    \E p \in Procs :
        /\ pc[p] = "published"
        /\ route[p] = "cache"
        /\ http_attempts[p] = 0
        /\ clone_attempts[p] = 0
        /\ cache[cutlass_version[p]] =
             {<<>>, <<"include">>, <<"include", "cutlass.h">>}

\* the errors of try_http_download that come from the archive, not the network
ArchiveErrors ==
    {Some(<<"HTTP download failed: ", HttpErrorText(o)>>) : o \in {"unpack", "nodir"}}

\* C17: an HTTP attempt that fails on the archive (unpack error, no extracted
\* cutlass* directory) counts as one failed attempt, becomes the last HTTP
\* error and returns to the head of the loop without a clone; from there the
\* next attempt is made after a backoff sleep, and the clone fallback is
\* entered only when all max_retries attempts have been made.
C17_ArchiveFailureIsAFailedAttempt ==
    [][\A p \in builds :
         /\ (/\ pc[p] = "http"
             /\ pc'[p] # "http"
             /\ route'[p] = "none"
             /\ last_error'[p] \in ArchiveErrors)
            => /\ pc'[p] = "retry_loop"
               /\ attempt'[p] = attempt[p] + 1
               /\ http_attempts'[p] = http_attempts[p] + 1
               /\ clone_attempts'[p] = 0
               /\ result_err'[p] = None
         /\ (/\ pc[p] = "retry_loop"
             /\ pc'[p] # "retry_loop"
             /\ last_error[p] \in ArchiveErrors)
            => /\ pc'[p] = "http"
                    => /\ attempt[p] <= max_retries[p]
                       /\ slept'[p] # None
                       /\ clone_attempts'[p] = 0
               /\ pc'[p] = "clone"
                    => /\ http_attempts[p] = max_retries[p]
                       /\ attempt[p] = max_retries[p] + 1
               /\ pc'[p] \notin {"http", "clone"}
                    => /\ pc'[p] = "fatal"
                       /\ panic_msg'[p] = Some("attempt to multiply with overflow")]_vars

\* after an unpack failure in the first attempt the loop slept 2 s and is
\* about to make the second attempt
C17_Witness ==
    \E p \in builds :
        /\ pc[p] = "http"
        /\ last_error[p] = Some(<<"HTTP download failed: ", HttpErrorText("unpack")>>)
        /\ attempt[p] = 2
        /\ http_attempts[p] = 1
        /\ slept[p] = Some(U64Small(2))
        /\ clone_attempts[p] = 0

\* the stage a position of main belongs to, in the order of the control flow
Stage(position) ==
    CASE position = "idle" -> 0
      [] position = "override_check" -> 1
      [] position = "cache_check" -> 2
      [] position \in {"mktemp", "download", "retry_loop", "http"} -> 3
      [] position = "clone" -> 4
      [] position \in {"mkcache", "copy"} -> 5
      [] position \in {"publish", "cleanup"} -> 6
      [] position \in Terminal -> 7

C19_ZeroRetriesGoesToClone ==
    \A p \in Procs :
        env[p].CUTLASS_DOWNLOAD_RETRIES = Some(<<"0">>)
        => /\ http_attempts[p] = 0
           /\ pc[p] # "http"
           /\ slept[p] = None
           /\ last_error[p] = None
           /\ pc[p] = "clone" => attempt[p] = 1 /\ max_retries[p] = 0
           /\ clone_attempts[p] = 1
                 => \/ /\ pc[p] = "fatal"
                       /\ route[p] = "none"
                       /\ clone_err[p] # None
                       /\ result_err[p] = Some(<<"All download attempts failed">>)
                    \/ /\ route[p] = "clone"
                       /\ result_err[p] = None
                       /\ extracted_root[p] = CloneDir
           /\ (pc[p] = "published" /\ route[p] = "clone")
                 => /\ SourceTree \subseteq cache[cutlass_version[p]]
                    /\ PublishedExactly(p, SlotRoot(cutlass_version[p]),
                                        SlotInclude(cutlass_version[p]))

\* with the limit 0 the clone was the only attempt and it failed
C19_Witness ==
    \E p \in Procs :
        /\ env[p].CUTLASS_DOWNLOAD_RETRIES = Some(<<"0">>)
        /\ pc[p] = "fatal"
        /\ clone_attempts[p] = 1
        /\ http_attempts[p] = 0
        /\ result_err[p] = Some(<<"All download attempts failed">>)

\* the panics of main that report a filesystem error
FsPanics == {Some("Failed to create temp directory"),
             Some("Failed to create cache directory"),
             Some("Failed to copy to cache")}

\* C20: when builds of one version race on the slot and none of them hits a
\* filesystem error, then once all of them have terminated after at least one
\* fetch the slot holds the whole fetched tree; a slot that exists but is
\* incomplete is one that some build is still copying into.
C20_SlotCompleteAfterRace ==
    (\A p \in builds : panic_msg[p] \notin FsPanics)
    => \A v \in CacheSlots :
         /\ (/\ \A p \in builds : pc[p] \in Terminal
             /\ \E p \in builds : Fetched(p) /\ cutlass_version[p] = v)
            => ({<<>>} \cup SourceTree) \subseteq cache[v]
         /\ (cache[v] # {} /\ ~(SourceTree \subseteq cache[v]))
            => \E p \in builds : /\ cutlass_version[p] = v
                                /\ Fetched(p)
                                /\ pc[p] = "copy"

\* both builds fetched, copied into the same slot and terminated, one over
\* HTTP and one by clone
C20_Witness ==
    /\ \A p \in Procs : pc[p] = "published" /\ Fetched(p) /\ cache_writes[p] > 0
    /\ \E p \in Procs : route[p] = "clone"
    /\ \E p \in Procs : route[p] = "http"
    /\ cutlass_version[1] = cutlass_version[2]
    /\ ({<<>>} \cup SourceTree) \subseteq cache[cutlass_version[1]]

====
